---- MODULE Spec2Model ----
(***************************************************************************)
(* Model of the binance-trader-bot reconciliation engine:                  *)
(*   main.go                      the cycle driver (ticker loop, signals)  *)
(*   services/trading_strategy.go ExecuteTradingCycle and its four steps   *)
(*   services/state_manager.go    the in-memory BotState and its load/save *)
(*   repositories/trade_repository.go  the store (orders, trades, state)   *)
(*   models/*.go                  BotState, Order and Trade methods        *)
(*                                                                         *)
(* Units: prices are integers in cents (10000 = 100.00 USDT), quantities   *)
(* in 1e-5 base-asset units, balances in whole USDT, profit in 1e-7 USDT   *)
(* (cents times quantity units).  NoValue stands for a nil pointer / SQL   *)
(* NULL; order id 0 stands for a NULL order reference.                     *)
(***************************************************************************)
EXTENDS Integers, Sequences, FiniteSets, TLC

\* ------------------------------------------------------------------ bounds
MaxOrders == 3       \* order ids the exchange hands out: 1..MaxOrders
MaxTrades == 1       \* trade rows the store holds at process start
MaxTime == 2         \* the clock runs 0..MaxTime (minutes)
MaxFaults == 1       \* exchange/store calls that fail transiently

\* ------------------------------------------------------- program constants
InitialBuyTarget == 10        \* the literal 10 of the initial phase
InitialUSDT == 100            \* INITIAL_USDT default
OrderAmount == 10             \* ORDER_AMOUNT default
InitialBuyPercentage == 1     \* INITIAL_BUY_PERCENTAGE default
OrderIntervalMinutes == 2     \* ORDER_INTERVAL_MINUTES default
SellProfitPercentage == 2     \* SELL_PROFIT_PERCENTAGE default
MaxOpenTrades == 1            \* config.MaxOpenTrades (assumed by the code)
BuyPercentages == <<1, 2, 5, 10>>   \* BUY_PERCENTAGES default

NoValue == -1
QtyScale == 100000            \* quantity units per whole base asset
CentsPerUSDT == 100

OrderIds == 1..MaxOrders
TradeIds == 1..MaxTrades

\* inputs the exchange can answer with
UsdtSet == {5, 100}           \* quote balance below / above OrderAmount
PriceSet == {10000}           \* 100.00
PlaceStatuses == {"NEW", "FILLED"}   \* status in the placement response
OpenStatuses == {"NEW", "PARTIALLY_FILLED"}   \* what GET openOrders lists

VARIABLES
  pc,            \* position of the process (main loop and cycle step)
  botState,      \* StateManager.botState, the in-memory BotState
  db,            \* the bot_states row (ID = 0: no row)
  orders,        \* the orders table, by binance_id
  trades,        \* the trades table, by id
  exch,          \* the exchange: status of each order id, and what it was placed for
  now,           \* wall clock, minutes
  currentPrice,  \* local of ExecuteTradingCycle
  ti,            \* loop index of checkAndPlaceSellOrders over the open trades
  stepErr,       \* error value returned by the last placement step of this cycle
  stepPlaced,    \* exchange id of the order the last placement step placed (0: none)
  ctxCancelled,  \* the context of main has been cancelled by the signal goroutine
  faults,        \* transient failures injected so far
  initialBuysSent,  \* history: initial buy orders the exchange has accepted, all runs
  profitAdds,    \* history: times each trade's profit was folded into BotState
  sigInFlight    \* history: the signal arrived while the cycle now running was in flight

vars == <<pc, botState, db, orders, trades, exch, now, currentPrice, ti, stepErr,
          stepPlaced, ctxCancelled, faults, initialBuysSent, profitAdds,
          sigInFlight>>

CyclePcs == {"price", "initial", "sell", "sellLoop", "sweep", "additional", "save"}

\* ------------------------------------------------------------ models/*.go
Abs(x) == IF x < 0 THEN -x ELSE x

\* the percentage added to the price instead of taken off it
CalculateBuyPriceAbove(price, percentage) == (price * (100 + Abs(percentage))) \div 100

\* utils.CalculateBuyPrice: currentPrice * (1 - |percentage|/100)
CalculateBuyPrice(price, percentage) == (price * (100 - Abs(percentage))) \div 100

\* the profit percentage taken off the base price instead of added to it
CalculateSellPriceBelow(basePrice, profitPercentage) ==
  (basePrice * (100 - Abs(profitPercentage))) \div 100

\* utils.CalculateSellPrice: basePrice * (1 + |profitPercentage|/100)
CalculateSellPrice(basePrice, profitPercentage) ==
  (basePrice * (100 + Abs(profitPercentage))) \div 100

\* quantity := OrderAmount / buyPrice
Quantity(buyPrice) == (OrderAmount * CentsPerUSDT * QtyScale) \div buyPrice

\* models.NewBotState
NewBotState(initialUSDT) ==
  [ID |-> 0,
   CurrentUSDTBalance |-> initialUSDT,
   TotalUSDTProfit |-> 0,
   InitialBuyOrdersPlacedCount |-> 0,
   LastInitialBuyOrderPlacedAt |-> NoValue,
   IsInitialBuyingComplete |-> FALSE]

\* BotState.UpdateBalances (the base-asset balance, which no decision of the
\* engine reads, is not modelled)
UpdateBalances(bs, usdt) == [bs EXCEPT !.CurrentUSDTBalance = usdt]

\* BotState.IncrementInitialBuyOrdersCount
IncrementInitialBuyOrdersCount(bs, t) ==
  [bs EXCEPT !.InitialBuyOrdersPlacedCount = @ + 1,
             !.LastInitialBuyOrderPlacedAt = t,
             !.IsInitialBuyingComplete =
                 IF bs.InitialBuyOrdersPlacedCount + 1 >= InitialBuyTarget THEN TRUE ELSE @]

\* BotState.UpdateInvestedAndProfit (the invested total is not modelled)
UpdateInvestedAndProfit(bs, usdtProfit) ==
  [bs EXCEPT !.TotalUSDTProfit = @ + usdtProfit]

\* BotState.SetInitialBuyingComplete
SetInitialBuyingComplete(bs) == [bs EXCEPT !.IsInitialBuyingComplete = TRUE]

\* models.Order as stored (row of the orders table); Type "NONE": no row
NoOrder == [Type |-> "NONE", Status |-> "NONE", Price |-> 0, Quantity |-> 0]

\* a row written with status FILLED whatever the exchange answered
NewOrderRowAssumedFilled(type, status, price, quantity) ==
  [Type |-> type, Status |-> "FILLED", Price |-> price, Quantity |-> quantity]

NewOrderRow(type, status, price, quantity) ==
  [Type |-> type, Status |-> status, Price |-> price, Quantity |-> quantity]

\* Order.UpdateStatus (timestamps are not modelled)
UpdateStatus(o, newStatus) == [o EXCEPT !.Status = newStatus]

\* models.Trade as stored; Status "NONE": no row
NoTrade ==
  [BuyOrderID |-> 0, SellOrderID |-> 0, BuyPrice |-> 0, BuyQuantity |-> 0,
   ActualSellPrice |-> NoValue, Status |-> "NONE", ProfitUSDT |-> NoValue]

\* models.NewTrade
NewTrade(buyOrderID, buyPrice, buyQuantity) ==
  [BuyOrderID |-> buyOrderID, SellOrderID |-> 0, BuyPrice |-> buyPrice,
   BuyQuantity |-> buyQuantity, ActualSellPrice |-> NoValue, Status |-> "OPEN",
   ProfitUSDT |-> NoValue]

\* the proceeds of the sale taken for the profit (the buy price not subtracted)
MarkAsSoldGross(t, actualSellPrice) ==
  [t EXCEPT !.Status = "SOLD",
            !.ActualSellPrice = actualSellPrice,
            !.ProfitUSDT = actualSellPrice * t.BuyQuantity]

\* Trade.MarkAsSold
MarkAsSold(t, actualSellPrice) ==
  [t EXCEPT !.Status = "SOLD",
            !.ActualSellPrice = actualSellPrice,
            !.ProfitUSDT = (actualSellPrice - t.BuyPrice) * t.BuyQuantity]

\* Trade.SetSellOrder
SetSellOrder(t, sellOrderID) == [t EXCEPT !.SellOrderID = sellOrderID]

\* --------------------------------------------------------------- exchange
NoExch == [Status |-> "NONE", Kind |-> "NONE", Trade |-> 0]

\* the exchange assigns order ids in sequence
NextId == Cardinality({i \in OrderIds : exch[i].Status # "NONE"}) + 1

\* failure choices of one call taking the context: it fails when the context
\* is cancelled, may fail transiently while the fault budget lasts
FailSetAt(f) ==
  IF ctxCancelled THEN {TRUE}
  ELSE IF f < MaxFaults THEN {FALSE, TRUE} ELSE {FALSE}

FailSet == FailSetAt(faults)

\* the fault budget after a call with outcome fail
Charge(f, fail) == IF fail /\ ~ctxCancelled THEN f + 1 ELSE f

\* failure choices of an order placement: the exchange also rejects the
\* order when it has no order id left
PlaceFailSet ==
  IF ctxCancelled \/ NextId > MaxOrders THEN {TRUE} ELSE FailSet

ChargePlace(f, fail) == IF NextId > MaxOrders THEN f ELSE Charge(f, fail)

\* ------------------------------------------------------------------- Init
\* The process starts against the store as it finds it: no bot_states row,
\* the migration's zero row, or the row an earlier run saved one placement
\* short of the target; and up to MaxTrades OPEN rows of the trades table
\* whose buy order is stored as NEW (resting) or FILLED.  The engine reads
\* and updates the trades table but has no caller of NewTrade / AddTrade, so
\* the rows of that table are an input here.
DbRows ==
  { NewBotState(0),
    [NewBotState(0) EXCEPT !.ID = 1],
    [NewBotState(0) EXCEPT !.ID = 1, !.InitialBuyOrdersPlacedCount = InitialBuyTarget - 1,
                           !.LastInitialBuyOrderPlacedAt = 0] }

InitBuyPrice == CalculateBuyPrice(10000, InitialBuyPercentage)

InitStore ==
  /\ pc = "boot"
  /\ botState = NewBotState(0)
  /\ db \in DbRows
  /\ \E n \in 0..MaxTrades : \E st \in [1..n -> PlaceStatuses] :
       /\ trades = [t \in TradeIds |->
                      IF t <= n THEN NewTrade(t, InitBuyPrice, Quantity(InitBuyPrice))
                      ELSE NoTrade]
       /\ orders = [i \in OrderIds |->
                      IF i <= n THEN NewOrderRow("BUY", st[i], InitBuyPrice, Quantity(InitBuyPrice))
                      ELSE NoOrder]
       /\ exch = [i \in OrderIds |->
                      IF i <= n THEN [Status |-> st[i], Kind |-> "BUY", Trade |-> i]
                      ELSE NoExch]
  /\ now = 0
  /\ currentPrice = 0
  /\ ti = 1
  /\ stepErr = FALSE
  /\ stepPlaced = 0
  /\ ctxCancelled = FALSE
  /\ initialBuysSent = db.InitialBuyOrdersPlacedCount
  /\ profitAdds = [t \in TradeIds |-> 0]
  /\ sigInFlight = FALSE

Init == InitStore /\ faults = 0

\* ------------------------------------------------- StateManager / main.go
\* StateManager.LoadBotState: GetBotState fails (no row, or an error) and the
\* error is swallowed: the state becomes NewBotState(0.0)
LoadBotState ==
  /\ pc = "boot"
  /\ \E fail \in FailSet :
       /\ botState' = IF fail \/ db.ID = 0 THEN NewBotState(0) ELSE db
       /\ faults' = Charge(faults, fail)
  /\ pc' = "idle"
  /\ UNCHANGED <<db, orders, trades, exch, now, currentPrice, ti, stepErr, stepPlaced,
                 ctxCancelled, initialBuysSent, profitAdds, sigInFlight>>

\* ExecuteTradingCycle, lines 38-80: the ticker fired; first-run
\* initialisation when ID == 0; balances refreshed (0 on failure)
CycleBegin ==
  /\ pc = "idle"
  /\ LET bs0 == IF botState.ID = 0 THEN NewBotState(InitialUSDT) ELSE botState IN
     \E failU \in FailSet, u \in UsdtSet :
       /\ botState' = UpdateBalances(bs0, IF failU THEN 0 ELSE u)
       /\ faults' = Charge(faults, failU)
  /\ pc' = "price"
  /\ stepErr' = FALSE
  /\ stepPlaced' = 0
  /\ UNCHANGED <<db, orders, trades, exch, now, currentPrice, ti, ctxCancelled,
                 initialBuysSent, profitAdds, sigInFlight>>

\* a failed price call does not end the cycle
GetCurrentPriceKeepGoing ==
  /\ pc = "price"
  /\ \E fail \in FailSet, p \in PriceSet :
       /\ faults' = Charge(faults, fail)
       /\ pc' = "initial"
       /\ currentPrice' = p
  /\ UNCHANGED <<botState, db, orders, trades, exch, now, ti, stepErr, stepPlaced,
                 ctxCancelled, initialBuysSent, profitAdds, sigInFlight>>

\* ExecuteTradingCycle, lines 82-88: GetCurrentPrice; on failure the cycle
\* returns the error (BotState is not saved)
GetCurrentPrice ==
  /\ pc = "price"
  /\ \E fail \in FailSet, p \in PriceSet :
       /\ faults' = Charge(faults, fail)
       /\ IF fail
          THEN pc' = "idle" /\ sigInFlight' = FALSE /\ UNCHANGED currentPrice
          ELSE pc' = "initial" /\ currentPrice' = p /\ UNCHANGED sigInFlight
  /\ UNCHANGED <<botState, db, orders, trades, exch, now, ti, stepErr, stepPlaced,
                 ctxCancelled, initialBuysSent, profitAdds>>

\* ------------------------------------------------ placeInitialBuyOrders
\* ExecuteTradingCycle line 91 and placeInitialBuyOrders lines 131-151: the
\* branches that place nothing
InitialBuysNoPlacement ==
  /\ pc = "initial"
  /\ \/ /\ botState.IsInitialBuyingComplete
        /\ UNCHANGED botState
     \/ /\ ~botState.IsInitialBuyingComplete
        /\ botState.InitialBuyOrdersPlacedCount >= InitialBuyTarget
        /\ botState' = SetInitialBuyingComplete(botState)
     \/ /\ ~botState.IsInitialBuyingComplete
        /\ botState.InitialBuyOrdersPlacedCount < InitialBuyTarget
        /\ \/ /\ botState.LastInitialBuyOrderPlacedAt # NoValue
              /\ now < botState.LastInitialBuyOrderPlacedAt + OrderIntervalMinutes
           \/ botState.CurrentUSDTBalance < OrderAmount
        /\ UNCHANGED botState
  /\ pc' = "sell"
  /\ ti' = 1
  /\ UNCHANGED <<db, orders, trades, exch, now, currentPrice, stepErr, stepPlaced,
                 ctxCancelled, faults, initialBuysSent, profitAdds, sigInFlight>>

\* the guard without the balance test
InitialBuyDueAnyBalance ==
  /\ ~botState.IsInitialBuyingComplete
  /\ botState.InitialBuyOrdersPlacedCount < InitialBuyTarget
  /\ \/ botState.LastInitialBuyOrderPlacedAt = NoValue
     \/ now >= botState.LastInitialBuyOrderPlacedAt + OrderIntervalMinutes

\* the guard under which placeInitialBuyOrders reaches PlaceLimitOrder
InitialBuyDue ==
  /\ ~botState.IsInitialBuyingComplete
  /\ botState.InitialBuyOrdersPlacedCount < InitialBuyTarget
  /\ \/ botState.LastInitialBuyOrderPlacedAt = NoValue
     \/ now >= botState.LastInitialBuyOrderPlacedAt + OrderIntervalMinutes
  /\ botState.CurrentUSDTBalance >= OrderAmount

\* the failed placement counted as an initial buy all the same
InitialBuyRejectedCounted ==
  /\ pc = "initial"
  /\ InitialBuyDue
  /\ TRUE \in PlaceFailSet
  /\ faults' = ChargePlace(faults, TRUE)
  /\ botState' = LET inc == IncrementInitialBuyOrdersCount(botState, now)
                 IN UpdateBalances(inc, inc.CurrentUSDTBalance - OrderAmount)
  /\ stepErr' = TRUE
  /\ pc' = "sell"
  /\ ti' = 1
  /\ UNCHANGED <<db, orders, trades, exch, now, currentPrice, stepPlaced,
                 ctxCancelled, initialBuysSent, profitAdds, sigInFlight>>

\* placeInitialBuyOrders lines 160-164: PlaceLimitOrder fails, the error is returned
InitialBuyRejected ==
  /\ pc = "initial"
  /\ InitialBuyDue
  /\ TRUE \in PlaceFailSet
  /\ faults' = ChargePlace(faults, TRUE)
  /\ stepErr' = TRUE
  /\ pc' = "sell"
  /\ ti' = 1
  /\ UNCHANGED <<botState, db, orders, trades, exch, now, currentPrice, stepPlaced,
                 ctxCancelled, initialBuysSent, profitAdds, sigInFlight>>

\* placeInitialBuyOrders lines 153-177: the order is accepted; AddOrder may
\* fail (logged only); the count, the timestamp and the balance are updated
InitialBuyPlaced ==
  /\ pc = "initial"
  /\ InitialBuyDue
  /\ FALSE \in PlaceFailSet
  /\ LET id == NextId
         buyPrice == CalculateBuyPrice(currentPrice, InitialBuyPercentage)
         quantity == Quantity(buyPrice)
     IN \E status \in PlaceStatuses, failAdd \in FailSet :
          /\ exch' = [exch EXCEPT ![id] = [Status |-> status, Kind |-> "INITIAL", Trade |-> 0]]
          /\ orders' = IF failAdd THEN orders
                       ELSE [orders EXCEPT ![id] = NewOrderRow("BUY", status, buyPrice, quantity)]
          /\ faults' = Charge(faults, failAdd)
          /\ stepPlaced' = id
          /\ botState' = LET inc == IncrementInitialBuyOrdersCount(botState, now)
                         IN UpdateBalances(inc, inc.CurrentUSDTBalance - OrderAmount)
  /\ stepErr' = FALSE
  /\ initialBuysSent' = initialBuysSent + 1
  /\ pc' = "sell"
  /\ ti' = 1
  /\ UNCHANGED <<db, trades, now, currentPrice, ctxCancelled, profitAdds, sigInFlight>>

\* ----------------------------------------------- checkAndPlaceSellOrders
\* the loop goes over the same trade once more
NextTradeSameAgain == pc' = "sellLoop" /\ ti' = ti

\* the loop of checkAndPlaceSellOrders moves on to the next open trade, or
\* the function returns and manageOpenOrders is next
NextTrade ==
  IF ti < MaxTrades THEN pc' = "sellLoop" /\ ti' = ti + 1
  ELSE pc' = "sweep" /\ ti' = 1

\* lines 182-190: GetOpenTrades; on failure the error is returned (and
\* logged); with no open trade the function returns at once
GetOpenTrades ==
  /\ pc = "sell"
  /\ \E fail \in FailSet :
       /\ faults' = Charge(faults, fail)
       /\ IF fail \/ \A t \in TradeIds : trades[t].Status # "OPEN"
          THEN pc' = "sweep"
          ELSE pc' = "sellLoop"
       /\ stepErr' = fail
  /\ stepPlaced' = 0
  /\ UNCHANGED <<botState, db, orders, trades, exch, now, currentPrice, ti,
                 ctxCancelled, initialBuysSent, profitAdds, sigInFlight>>

\* lines 192-205: the trade is not OPEN (not in the result of GetOpenTrades),
\* its buy order cannot be read, or the stored buy order is not FILLED
SellSkip ==
  /\ pc = "sellLoop"
  /\ LET trade == trades[ti] IN
     \/ /\ trade.Status # "OPEN"
        /\ UNCHANGED faults
     \/ /\ trade.Status = "OPEN"
        /\ orders[trade.BuyOrderID].Type = "NONE"
        /\ UNCHANGED faults
     \/ /\ trade.Status = "OPEN"
        /\ orders[trade.BuyOrderID].Type # "NONE"
        /\ TRUE \in FailSet
        /\ faults' = Charge(faults, TRUE)
     \/ /\ trade.Status = "OPEN"
        /\ ~ctxCancelled
        /\ orders[trade.BuyOrderID].Type # "NONE"
        /\ orders[trade.BuyOrderID].Status # "FILLED"
        /\ UNCHANGED faults
  /\ NextTrade
  /\ UNCHANGED <<botState, db, orders, trades, exch, now, currentPrice, stepErr,
                 stepPlaced, ctxCancelled, initialBuysSent, profitAdds, sigInFlight>>

\* the check of the buy order's status left out
SellReadyAnyBuyStatus ==
  /\ pc = "sellLoop"
  /\ ~ctxCancelled
  /\ trades[ti].Status = "OPEN"
  /\ orders[trades[ti].BuyOrderID].Type # "NONE"

\* the trade at the loop index is OPEN and its stored buy order is FILLED
SellReady ==
  /\ pc = "sellLoop"
  /\ ~ctxCancelled
  /\ trades[ti].Status = "OPEN"
  /\ orders[trades[ti].BuyOrderID].Type # "NONE"
  /\ orders[trades[ti].BuyOrderID].Status = "FILLED"

\* the trade taken out of the OPEN set when placing its sell order fails
SellRejectedMarksTrade ==
  /\ SellReady
  /\ trades[ti].SellOrderID = 0
  /\ TRUE \in PlaceFailSet
  /\ faults' = ChargePlace(faults, TRUE)
  /\ trades' = [trades EXCEPT ![ti].Status = "CANCELED"]
  /\ NextTrade
  /\ UNCHANGED <<botState, db, orders, exch, now, currentPrice, stepErr,
                 stepPlaced, ctxCancelled, initialBuysSent, profitAdds, sigInFlight>>

\* lines 217-222: placing the sell order fails, the loop continues
SellRejected ==
  /\ SellReady
  /\ trades[ti].SellOrderID = 0
  /\ TRUE \in PlaceFailSet
  /\ faults' = ChargePlace(faults, TRUE)
  /\ NextTrade
  /\ UNCHANGED <<botState, db, orders, trades, exch, now, currentPrice, stepErr,
                 stepPlaced, ctxCancelled, initialBuysSent, profitAdds, sigInFlight>>

\* lines 207-232: the sell order is accepted; the trade copy gets the sell
\* order id; UpdateTrade and AddOrder may each fail (logged only)
SellPlaced ==
  /\ SellReady
  /\ trades[ti].SellOrderID = 0
  /\ FALSE \in PlaceFailSet
  /\ LET id == NextId
         buyOrder == orders[trades[ti].BuyOrderID]
         sellPrice == CalculateSellPrice(buyOrder.Price, SellProfitPercentage)
         quantityToSell == buyOrder.Quantity
     IN \E status \in PlaceStatuses, failUpd \in FailSet :
        \E failAdd \in FailSetAt(Charge(faults, failUpd)) :
          /\ exch' = [exch EXCEPT ![id] = [Status |-> status, Kind |-> "SELL", Trade |-> ti]]
          /\ trades' = IF failUpd THEN trades
                       ELSE [trades EXCEPT ![ti] = SetSellOrder(trades[ti], id)]
          /\ orders' = IF failAdd THEN orders
                       ELSE [orders EXCEPT ![id] =
                               NewOrderRow("SELL", status, sellPrice, quantityToSell)]
          /\ faults' = Charge(Charge(faults, failUpd), failAdd)
          /\ stepPlaced' = id
  /\ NextTrade
  /\ UNCHANGED <<botState, db, now, currentPrice, stepErr, ctxCancelled,
                 initialBuysSent, profitAdds, sigInFlight>>

\* lines 234-239 and 255-257: the sell order cannot be read, or is not FILLED
SellPending ==
  /\ SellReady
  /\ trades[ti].SellOrderID # 0
  /\ LET sellOrder == orders[trades[ti].SellOrderID] IN
     \/ /\ sellOrder.Type = "NONE"
        /\ UNCHANGED faults
     \/ /\ sellOrder.Type # "NONE"
        /\ TRUE \in FailSet
        /\ faults' = Charge(faults, TRUE)
     \/ /\ sellOrder.Type # "NONE"
        /\ sellOrder.Status # "FILLED"
        /\ UNCHANGED faults
  /\ NextTrade
  /\ UNCHANGED <<botState, db, orders, trades, exch, now, currentPrice, stepErr,
                 stepPlaced, ctxCancelled, initialBuysSent, profitAdds, sigInFlight>>

\* the trade is closed whatever the status of the stored sell order
SellFilledUnchecked ==
  /\ SellReady
  /\ trades[ti].SellOrderID # 0
  /\ LET sellOrder == orders[trades[ti].SellOrderID]
         sold == MarkAsSold(trades[ti], sellOrder.Price)
     IN /\ sellOrder.Type # "NONE"
        /\ \E failUpd \in FailSet :
             /\ trades' = IF failUpd THEN trades ELSE [trades EXCEPT ![ti] = sold]
             /\ faults' = Charge(faults, failUpd)
        /\ botState' = IF sold.ProfitUSDT # NoValue
                       THEN UpdateInvestedAndProfit(botState, sold.ProfitUSDT)
                       ELSE botState
        /\ profitAdds' = [profitAdds EXCEPT ![ti] = @ + 1]
  /\ NextTrade
  /\ UNCHANGED <<db, orders, exch, now, currentPrice, stepErr, stepPlaced, ctxCancelled,
                 initialBuysSent, sigInFlight>>

\* lines 241-251: the stored sell order is FILLED: the trade copy is marked
\* SOLD, UpdateTrade may fail (logged only), the profit of the copy is added
\* to the in-memory BotState
SellFilled ==
  /\ SellReady
  /\ trades[ti].SellOrderID # 0
  /\ LET sellOrder == orders[trades[ti].SellOrderID]
         sold == MarkAsSold(trades[ti], sellOrder.Price)
     IN /\ sellOrder.Type # "NONE"
        /\ sellOrder.Status = "FILLED"
        /\ \E failUpd \in FailSet :
             /\ trades' = IF failUpd THEN trades ELSE [trades EXCEPT ![ti] = sold]
             /\ faults' = Charge(faults, failUpd)
        /\ botState' = IF sold.ProfitUSDT # NoValue
                       THEN UpdateInvestedAndProfit(botState, sold.ProfitUSDT)
                       ELSE botState
        /\ profitAdds' = [profitAdds EXCEPT ![ti] = @ + 1]
  /\ NextTrade
  /\ UNCHANGED <<db, orders, exch, now, currentPrice, stepErr, stepPlaced, ctxCancelled,
                 initialBuysSent, sigInFlight>>

\* ------------------------------------------------------ manageOpenOrders
\* listed orders without a stored row taken for stale too (a row is made up)
StaleOrUnrecorded == {i \in OrderIds : /\ exch[i].Status \in OpenStatuses
                                       /\ orders[i].Status # exch[i].Status}

\* the orders GET openOrders lists whose stored row exists with another status
Stale == {i \in OrderIds : /\ exch[i].Status \in OpenStatuses
                           /\ orders[i].Type # "NONE"
                           /\ orders[i].Status # exch[i].Status}

\* lines 265-298: on a failed listing the error is returned; else every
\* listed order with a stored row of another status gets the listed status,
\* unless its GetOrder or UpdateOrder fails (logged only); listed orders
\* without a stored row are skipped
ManageOpenOrders ==
  /\ pc = "sweep"
  /\ \E fail \in FailSet :
       IF fail
       THEN /\ faults' = Charge(faults, TRUE)
            /\ UNCHANGED orders
       ELSE \E failed \in SUBSET Stale :
            /\ faults + Cardinality(failed) <= MaxFaults
            /\ faults' = faults + Cardinality(failed)
            /\ orders' = [i \in OrderIds |->
                            IF i \in Stale \ failed
                            THEN UpdateStatus(orders[i], exch[i].Status)
                            ELSE orders[i]]
  /\ pc' = "additional"
  /\ UNCHANGED <<botState, db, trades, exch, now, currentPrice, ti, stepErr, stepPlaced,
                 ctxCancelled, initialBuysSent, profitAdds, sigInFlight>>

\* ------------------------------------------------ placeAdditionalBuyOrders
OpenTradeCount == Cardinality({t \in TradeIds : trades[t].Status = "OPEN"})

\* ExecuteTradingCycle line 111
AdditionalBuyGate ==
  /\ botState.IsInitialBuyingComplete
  /\ botState.CurrentUSDTBalance >= OrderAmount

\* line 111 false, or placeAdditionalBuyOrders returns before PlaceLimitOrder:
\* GetOpenTrades fails (error returned), or MaxOpenTrades is reached
AdditionalBuysNoPlacement ==
  /\ pc = "additional"
  /\ \/ /\ ~AdditionalBuyGate
        /\ UNCHANGED <<faults, stepErr>>
     \/ /\ AdditionalBuyGate
        /\ TRUE \in FailSet
        /\ faults' = Charge(faults, TRUE)
        /\ stepErr' = TRUE
     \/ /\ AdditionalBuyGate
        /\ ~ctxCancelled
        /\ \/ OpenTradeCount >= MaxOpenTrades
           \/ Len(BuyPercentages) = 0
        /\ UNCHANGED <<faults, stepErr>>
  /\ stepPlaced' = 0
  /\ pc' = "save"
  /\ UNCHANGED <<botState, db, orders, trades, exch, now, currentPrice, ti,
                 ctxCancelled, initialBuysSent, profitAdds, sigInFlight>>

\* the ceiling on open trades left out
AdditionalBuyDueNoCeiling ==
  /\ AdditionalBuyGate
  /\ ~ctxCancelled
  /\ Len(BuyPercentages) > 0

\* the guard under which placeAdditionalBuyOrders reaches PlaceLimitOrder
AdditionalBuyDue ==
  /\ AdditionalBuyGate
  /\ ~ctxCancelled
  /\ OpenTradeCount < MaxOpenTrades
  /\ Len(BuyPercentages) > 0

\* lines 338-342: PlaceLimitOrder fails, the error is returned
AdditionalBuyRejected ==
  /\ pc = "additional"
  /\ AdditionalBuyDue
  /\ TRUE \in PlaceFailSet
  /\ faults' = ChargePlace(faults, TRUE)
  /\ stepErr' = TRUE
  /\ stepPlaced' = 0
  /\ pc' = "save"
  /\ UNCHANGED <<botState, db, orders, trades, exch, now, currentPrice, ti,
                 ctxCancelled, initialBuysSent, profitAdds, sigInFlight>>

\* lines 329-348: the order is accepted; AddOrder may fail (logged only);
\* the local balance is decremented
AdditionalBuyPlaced ==
  /\ pc = "additional"
  /\ AdditionalBuyDue
  /\ FALSE \in PlaceFailSet
  /\ LET id == NextId
         potentialBuyPrice == CalculateBuyPrice(currentPrice, BuyPercentages[1])
         quantity == Quantity(potentialBuyPrice)
     IN \E status \in PlaceStatuses, failAdd \in FailSet :
          /\ exch' = [exch EXCEPT ![id] = [Status |-> status, Kind |-> "ADDITIONAL", Trade |-> 0]]
          /\ orders' = IF failAdd THEN orders
                       ELSE [orders EXCEPT ![id] =
                               NewOrderRow("BUY", status, potentialBuyPrice, quantity)]
          /\ faults' = Charge(faults, failAdd)
          /\ stepPlaced' = id
  /\ botState' = UpdateBalances(botState, botState.CurrentUSDTBalance - OrderAmount)
  /\ stepErr' = FALSE
  /\ pc' = "save"
  /\ UNCHANGED <<db, trades, now, currentPrice, ti, ctxCancelled, initialBuysSent, profitAdds, sigInFlight>>

\* ------------------------------------------------------------ SaveBotState
\* TradeRepository.SaveBotState: the upsert writes the row with id 1; the
\* in-memory ID is not assigned
UpsertRow(bs) == [bs EXCEPT !.ID = 1]

\* BotState is saved before the additional-buy step instead of last
SaveBotStateBeforeAdditional ==
  /\ pc = "sweep"
  /\ FALSE \in FailSet
  /\ db' = UpsertRow(botState)
  /\ pc' = "additional"
  /\ UNCHANGED <<botState, orders, trades, exch, now, currentPrice, ti, stepErr,
                 stepPlaced, ctxCancelled, faults, initialBuysSent, profitAdds,
                 sigInFlight>>

\* ExecuteTradingCycle lines 118-124: on success the cycle is complete
SaveBotState ==
  /\ pc = "save"
  /\ FALSE \in FailSet
  /\ db' = UpsertRow(botState)
  /\ pc' = "idle"
  /\ currentPrice' = 0
  /\ stepErr' = FALSE
  /\ stepPlaced' = 0
  /\ sigInFlight' = FALSE
  /\ UNCHANGED <<botState, orders, trades, exch, now, ti, ctxCancelled, faults,
                 initialBuysSent, profitAdds>>

\* the failed save is only logged and the process carries on
SaveBotStateLogged ==
  /\ pc = "save"
  /\ TRUE \in FailSet
  /\ faults' = Charge(faults, TRUE)
  /\ pc' = "idle"
  /\ currentPrice' = 0
  /\ stepErr' = FALSE
  /\ stepPlaced' = 0
  /\ sigInFlight' = FALSE
  /\ UNCHANGED <<botState, db, orders, trades, exch, now, ti, ctxCancelled,
                 initialBuysSent, profitAdds>>

\* ExecuteTradingCycle lines 119-121: SaveBotState fails, Fatalf exits the process
SaveBotStateFatal ==
  /\ pc = "save"
  /\ TRUE \in FailSet
  /\ faults' = Charge(faults, TRUE)
  /\ pc' = "exited"
  /\ currentPrice' = 0
  /\ stepErr' = FALSE
  /\ stepPlaced' = 0
  /\ sigInFlight' = FALSE
  /\ UNCHANGED <<botState, db, orders, trades, exch, now, ti, ctxCancelled,
                 initialBuysSent, profitAdds>>

\* ------------------------------------------------------------------ main.go
\* the signal goroutine: a signal arrives and cancel() is called
Signal ==
  /\ pc # "exited"
  /\ ~ctxCancelled
  /\ ctxCancelled' = TRUE
  /\ sigInFlight' = (pc \in CyclePcs)
  /\ UNCHANGED <<pc, botState, db, orders, trades, exch, now, currentPrice, ti, stepErr,
                 stepPlaced, faults, initialBuysSent, profitAdds>>

\* the main loop selects ctx.Done() and main returns
ExitMainLoop ==
  /\ pc = "idle"
  /\ ctxCancelled
  /\ pc' = "exited"
  /\ UNCHANGED <<botState, db, orders, trades, exch, now, currentPrice, ti, stepErr,
                 stepPlaced, ctxCancelled, faults, initialBuysSent,
                 profitAdds, sigInFlight>>

\* a supervisor starts the process again: memory is fresh, the store is kept
Restart ==
  /\ pc = "exited"
  /\ pc' = "boot"
  /\ botState' = NewBotState(0)
  /\ ctxCancelled' = FALSE
  /\ UNCHANGED <<db, orders, trades, exch, now, currentPrice, ti, stepErr, stepPlaced,
                 faults, initialBuysSent, profitAdds, sigInFlight>>

\* ------------------------------------------------------------ environment
\* time passes; the clock counts minutes and a cycle takes less than one,
\* so the clock moves between cycles
Tick ==
  /\ pc = "idle"
  /\ now < MaxTime
  /\ now' = now + 1
  /\ UNCHANGED <<pc, botState, db, orders, trades, exch, currentPrice, ti, stepErr,
                 stepPlaced, ctxCancelled, faults, initialBuysSent,
                 profitAdds, sigInFlight>>

\* the exchange matches a resting order, in part or in full; the process reads the
\* exchange's order statuses only in manageOpenOrders, so the change is taken
\* between cycles or right before that read
ExchangeProgress ==
  /\ pc \in {"idle", "sweep"}
  /\ \E i \in OrderIds, s \in {"PARTIALLY_FILLED", "FILLED"} :
       /\ exch[i].Status \in OpenStatuses
       /\ exch[i].Status # s
       /\ exch' = [exch EXCEPT ![i].Status = s]
  /\ UNCHANGED <<pc, botState, db, orders, trades, now, currentPrice, ti, stepErr,
                 stepPlaced, ctxCancelled, faults, initialBuysSent,
                 profitAdds, sigInFlight>>

Next ==
  \/ LoadBotState
  \/ CycleBegin
  \/ GetCurrentPrice
  \/ InitialBuysNoPlacement
  \/ InitialBuyRejected
  \/ InitialBuyPlaced
  \/ GetOpenTrades
  \/ SellSkip
  \/ SellRejected
  \/ SellPlaced
  \/ SellPending
  \/ SellFilled
  \/ ManageOpenOrders
  \/ AdditionalBuysNoPlacement
  \/ AdditionalBuyRejected
  \/ AdditionalBuyPlaced
  \/ SaveBotState
  \/ SaveBotStateFatal
  \/ Signal
  \/ ExitMainLoop
  \/ Restart
  \/ Tick
  \/ ExchangeProgress

Spec == Init /\ [][Next]_vars

\* ------------------------------------------------- error-free, fair cycles
\* a run in which no exchange or store call fails transiently and no signal
\* arrives: the fault budget is spent from the start
InitNoFaults == InitStore /\ faults = MaxFaults

\* the steps of the process in such a run (a buy is still rejected once the
\* exchange hands out no more order ids; a sell order is always accepted)
BotStep ==
  \/ LoadBotState
  \/ CycleBegin
  \/ GetCurrentPrice
  \/ InitialBuysNoPlacement
  \/ InitialBuyRejected
  \/ InitialBuyPlaced
  \/ GetOpenTrades
  \/ SellSkip
  \/ SellPlaced
  \/ SellPending
  \/ SellFilled
  \/ ManageOpenOrders
  \/ AdditionalBuysNoPlacement
  \/ AdditionalBuyRejected
  \/ AdditionalBuyPlaced
  \/ SaveBotState


NextNoFaults ==
  \/ BotStep
  \/ Tick
  \/ ExchangeProgress

\* main.go: the ticker keeps firing and every call of a cycle returns, so
\* the process always takes its next step
FairSpec == InitNoFaults /\ [][NextNoFaults]_vars /\ WF_vars(BotStep)

\* ------------------------------------------- the Trade methods on their own
\* inputs of the methods: buy prices, quantities and executed sell prices
TradeBuyPrices == {9801, 9900}
TradeQuantities == {10101, 10203}
TradeSellPrices == {9900, 10000, 10098}

\* any trade NewTrade can build; nothing else of the program is running
TradeInit ==
  /\ trades \in [TradeIds -> {NewTrade(b, bp, q) :
                               b \in OrderIds, bp \in TradeBuyPrices, q \in TradeQuantities}]
  /\ pc = "boot"
  /\ botState = NewBotState(0)
  /\ db = NewBotState(0)
  /\ orders = [i \in OrderIds |-> NoOrder]
  /\ exch = [i \in OrderIds |-> NoExch]
  /\ now = 0
  /\ currentPrice = 0
  /\ ti = 1
  /\ stepErr = FALSE
  /\ stepPlaced = 0
  /\ ctxCancelled = FALSE
  /\ faults = 0
  /\ initialBuysSent = 0
  /\ profitAdds = [t \in TradeIds |-> 0]
  /\ sigInFlight = FALSE

\* a caller invokes trade.MarkAsSold(actualSellPrice)
CallMarkAsSold ==
  /\ \E t \in TradeIds, p \in TradeSellPrices :
       trades' = [trades EXCEPT ![t] = MarkAsSold(trades[t], p)]
  /\ UNCHANGED <<pc, botState, db, orders, exch, now, currentPrice, ti, stepErr,
                 stepPlaced, ctxCancelled, faults, initialBuysSent, profitAdds,
                 sigInFlight>>

\* a caller invokes trade.SetSellOrder(sellOrderID)
CallSetSellOrder ==
  /\ \E t \in TradeIds, id \in OrderIds :
       trades' = [trades EXCEPT ![t] = SetSellOrder(trades[t], id)]
  /\ UNCHANGED <<pc, botState, db, orders, exch, now, currentPrice, ti, stepErr,
                 stepPlaced, ctxCancelled, faults, initialBuysSent, profitAdds,
                 sigInFlight>>

TradeNext ==
  \/ CallMarkAsSold
  \/ CallSetSellOrder

TradeSpec == TradeInit /\ [][TradeNext]_vars

\* ------------------------------------------ the bot_states table alone
\* For claims about the table itself, db holds the whole bot_states table
\* as a set of rows here (the engine model above keeps the one row it reads).

\* a plain INSERT that takes the next free id (no fixed id, no ON CONFLICT)
SaveBotStateStatementSerial(rows, bs) ==
  rows \cup {[bs EXCEPT !.ID = Cardinality(rows) + 1]}

\* the statement of TradeRepository.SaveBotState:
\* INSERT ... VALUES (1, ...) ON CONFLICT (id) DO UPDATE SET ...
SaveBotStateStatement(rows, bs) ==
  {r \in rows : r.ID # 1} \cup {UpsertRow(bs)}

\* the statement of TradeRepository.GetBotState: SELECT ... WHERE id = 1
GetBotStateStatement(rows) == {r \in rows : r.ID = 1}

\* the table is empty or holds the zero row of the migration
StoreInit ==
  /\ db \in {{}, {[NewBotState(0) EXCEPT !.ID = 1]}}
  /\ botState = NewBotState(0)
  /\ pc = "boot"
  /\ trades = [t \in TradeIds |-> NoTrade]
  /\ orders = [i \in OrderIds |-> NoOrder]
  /\ exch = [i \in OrderIds |-> NoExch]
  /\ now = 0
  /\ currentPrice = 0
  /\ ti = 1
  /\ stepErr = FALSE
  /\ stepPlaced = 0
  /\ ctxCancelled = FALSE
  /\ faults = 0
  /\ initialBuysSent = 0
  /\ profitAdds = [t \in TradeIds |-> 0]
  /\ sigInFlight = FALSE

\* StateManager.SaveBotState: the statement runs or fails; the in-memory
\* state is not touched either way
CallSaveBotState ==
  /\ \E fail \in BOOLEAN :
       db' = IF fail THEN db ELSE SaveBotStateStatement(db, botState)
  /\ UNCHANGED <<pc, botState, orders, trades, exch, now, currentPrice, ti, stepErr,
                 stepPlaced, ctxCancelled, faults, initialBuysSent, profitAdds,
                 sigInFlight>>

\* StateManager.LoadBotState: the row read, or NewBotState(0.0) when the
\* query fails or finds no row
CallLoadBotState ==
  /\ \E fail \in BOOLEAN :
       botState' = IF fail \/ GetBotStateStatement(db) = {}
                   THEN NewBotState(0)
                   ELSE CHOOSE r \in GetBotStateStatement(db) : TRUE
  /\ UNCHANGED <<pc, db, orders, trades, exch, now, currentPrice, ti, stepErr,
                 stepPlaced, ctxCancelled, faults, initialBuysSent, profitAdds,
                 sigInFlight>>

\* between a load and a save the engine changes the in-memory state: the
\* first-run initialisation, a balance refresh, a counted initial buy
CallBotStateMethod ==
  /\ \/ botState.ID = 0 /\ botState' = NewBotState(InitialUSDT)
     \/ \E u \in UsdtSet : botState' = UpdateBalances(botState, u)
     \/ /\ botState.InitialBuyOrdersPlacedCount < InitialBuyTarget
        /\ botState' = IncrementInitialBuyOrdersCount(botState, now)
  /\ UNCHANGED <<pc, db, orders, trades, exch, now, currentPrice, ti, stepErr,
                 stepPlaced, ctxCancelled, faults, initialBuysSent, profitAdds,
                 sigInFlight>>

StoreNext ==
  \/ CallSaveBotState
  \/ CallLoadBotState
  \/ CallBotStateMethod

StoreSpec == StoreInit /\ [][StoreNext]_vars

\* ------------------------------------------------- the Order record alone
\* For claims about the status update of an Order, orders holds Order
\* records with their timestamps here (the engine model above leaves the
\* timestamps out: no decision of the engine reads them).
OrderStatuses ==
  {"NEW", "PARTIALLY_FILLED", "FILLED", "CANCELED", "PENDING_CANCEL", "REJECTED",
   "EXPIRED"}

\* models.NewOrder at time t
NewOrder(type, status, price, quantity, t) ==
  [Type |-> type, Status |-> status, Price |-> price, Quantity |-> quantity,
   ExecutedAt |-> NoValue, LastUpdatedAt |-> t]

\* the execution time kept when the order is cancelled, rejected or expired
OrderUpdateStatusKeepExecuted(o, newStatus, t) ==
  [o EXCEPT !.Status = newStatus,
            !.LastUpdatedAt = t,
            !.ExecutedAt = IF newStatus \in {"FILLED", "PARTIALLY_FILLED"} THEN t ELSE @]

\* Order.UpdateStatus at time t, timestamps included
OrderUpdateStatus(o, newStatus, t) ==
  [o EXCEPT !.Status = newStatus,
            !.LastUpdatedAt = t,
            !.ExecutedAt = IF newStatus \in {"FILLED", "PARTIALLY_FILLED"} THEN t
                           ELSE IF newStatus \in {"CANCELED", "REJECTED", "EXPIRED"}
                                THEN NoValue
                                ELSE @]

\* manageOpenOrders lines 286-295: the update is applied only when the
\* status differs from the stored one
ApplyStatusUpdate(o, newStatus, t) ==
  IF o.Status # newStatus THEN OrderUpdateStatus(o, newStatus, t) ELSE o

\* every order was placed at time 0 and is NEW; nothing else is running
OrderInit ==
  /\ orders = [i \in OrderIds |->
                 NewOrder("BUY", "NEW", InitBuyPrice, Quantity(InitBuyPrice), 0)]
  /\ pc = "boot"
  /\ botState = NewBotState(0)
  /\ db = NewBotState(0)
  /\ trades = [t \in TradeIds |-> NoTrade]
  /\ exch = [i \in OrderIds |-> NoExch]
  /\ now = 0
  /\ currentPrice = 0
  /\ ti = 1
  /\ stepErr = FALSE
  /\ stepPlaced = 0
  /\ ctxCancelled = FALSE
  /\ faults = 0
  /\ initialBuysSent = 0
  /\ profitAdds = [t \in TradeIds |-> 0]
  /\ sigInFlight = FALSE

\* a status is applied to an order, as the sweep does
CallApplyStatusUpdate ==
  /\ \E i \in OrderIds, st \in OrderStatuses :
       orders' = [orders EXCEPT ![i] = ApplyStatusUpdate(orders[i], st, now)]
  /\ UNCHANGED <<pc, botState, db, trades, exch, now, currentPrice, ti, stepErr,
                 stepPlaced, ctxCancelled, faults, initialBuysSent, profitAdds,
                 sigInFlight>>

\* time passes
OrderClock ==
  /\ now < MaxTime
  /\ now' = now + 1
  /\ UNCHANGED <<pc, botState, db, orders, trades, exch, currentPrice, ti, stepErr,
                 stepPlaced, ctxCancelled, faults, initialBuysSent, profitAdds,
                 sigInFlight>>

OrderNext ==
  \/ CallApplyStatusUpdate
  \/ OrderClock

OrderSpec == OrderInit /\ [][OrderNext]_vars

\* --------------------------------------------- the main loop and its ticker
\* For claims about the scheduling of cycles, pc holds here the position of
\* the main goroutine (main: "select", a step of the cycle, or "returned"),
\* the ticks buffered in ticker.C (tickerC: the channel has capacity 1), the
\* activations of ExecuteTradingCycle in flight (running) and the time the
\* last one started (startedAt).  The cycle is reduced to its positions.
MaxTicks == 4        \* ticks the ticker fires

LoopInit ==
  /\ pc = [main |-> "select", tickerC |-> 0, running |-> 0, startedAt |-> NoValue]
  /\ botState = NewBotState(0)
  /\ db = NewBotState(0)
  /\ orders = [i \in OrderIds |-> NoOrder]
  /\ trades = [t \in TradeIds |-> NoTrade]
  /\ exch = [i \in OrderIds |-> NoExch]
  /\ now = 0
  /\ currentPrice = 0
  /\ ti = 1
  /\ stepErr = FALSE
  /\ stepPlaced = 0
  /\ ctxCancelled = FALSE
  /\ faults = 0
  /\ initialBuysSent = 0
  /\ profitAdds = [t \in TradeIds |-> 0]
  /\ sigInFlight = FALSE

\* time.NewTicker: every OrderIntervalMinutes the runtime sends a tick on
\* ticker.C, or drops it when the buffered one has not been received
TickerFires ==
  /\ now < MaxTicks * OrderIntervalMinutes
  /\ now' = now + OrderIntervalMinutes
  /\ pc' = [pc EXCEPT !.tickerC = 1]
  /\ UNCHANGED <<botState, db, orders, trades, exch, currentPrice, ti, stepErr,
                 stepPlaced, ctxCancelled, faults, initialBuysSent, profitAdds,
                 sigInFlight>>

\* each tick received starts ExecuteTradingCycle in a goroutine of its own
ReceiveTickSpawn ==
  /\ pc.main = "select"
  /\ pc.tickerC = 1
  /\ pc' = [pc EXCEPT !.tickerC = 0, !.running = @ + 1, !.startedAt = now]
  /\ UNCHANGED <<botState, db, orders, trades, exch, now, currentPrice, ti, stepErr,
                 stepPlaced, ctxCancelled, faults, initialBuysSent, profitAdds,
                 sigInFlight>>

\* main.go lines 93-101: case <-ticker.C: the main goroutine itself calls
\* ExecuteTradingCycle
ReceiveTick ==
  /\ pc.main = "select"
  /\ pc.tickerC = 1
  /\ pc' = [pc EXCEPT !.main = "price", !.tickerC = 0, !.running = @ + 1,
                      !.startedAt = now]
  /\ UNCHANGED <<botState, db, orders, trades, exch, now, currentPrice, ti, stepErr,
                 stepPlaced, ctxCancelled, faults, initialBuysSent, profitAdds,
                 sigInFlight>>

\* ExecuteTradingCycle moves to its next step, or returns to the select
\* (after the save, or early from the price step)
CycleStep ==
  /\ pc.main \in CyclePcs
  /\ \E next \in CyclePcs \cup {"select"} :
       /\ <<pc.main, next>> \in {<<"price", "initial">>, <<"price", "select">>,
                                 <<"initial", "sell">>, <<"sell", "sellLoop">>,
                                 <<"sell", "sweep">>, <<"sellLoop", "sweep">>,
                                 <<"sweep", "additional">>, <<"additional", "save">>,
                                 <<"save", "select">>}
       /\ pc' = [pc EXCEPT !.main = next,
                           !.running = IF next = "select" THEN @ - 1 ELSE @]
  /\ UNCHANGED <<botState, db, orders, trades, exch, now, currentPrice, ti, stepErr,
                 stepPlaced, ctxCancelled, faults, initialBuysSent, profitAdds,
                 sigInFlight>>

\* main.go lines 70-75: the signal goroutine cancels the context
LoopSignal ==
  /\ ~ctxCancelled
  /\ ctxCancelled' = TRUE
  /\ UNCHANGED <<pc, botState, db, orders, trades, exch, now, currentPrice, ti,
                 stepErr, stepPlaced, faults, initialBuysSent, profitAdds, sigInFlight>>

\* main.go lines 102-104: case <-ctx.Done(): main returns
LoopReturns ==
  /\ pc.main = "select"
  /\ ctxCancelled
  /\ pc' = [pc EXCEPT !.main = "returned"]
  /\ UNCHANGED <<botState, db, orders, trades, exch, now, currentPrice, ti, stepErr,
                 stepPlaced, ctxCancelled, faults, initialBuysSent, profitAdds,
                 sigInFlight>>

LoopNext ==
  \/ TickerFires
  \/ ReceiveTick
  \/ CycleStep
  \/ LoopSignal
  \/ LoopReturns

LoopSpec == LoopInit /\ [][LoopNext]_vars

\* ------------------------------------------------------------------ claims
SellOrdersOf(t) == {i \in OrderIds : exch[i].Kind = "SELL" /\ exch[i].Trade = t}

\* C1: over any sequence of cycles, failures and restarts included, the
\* exchange accepts at most 10 initial buy orders in total
C1_AtMostTenInitialBuys == initialBuysSent <= InitialBuyTarget

\* C2: the profit of a trade is added to the cumulative profit of BotState at
\* most once, also when the write that marks the trade SOLD fails and the
\* trade is processed again
C2_ProfitAddedAtMostOnce == \A t \in TradeIds : profitAdds[t] <= 1

\* C3: at most one sell order is ever placed on the exchange for a trade,
\* also when persisting the attachment fails after the exchange accepted
C3_AtMostOneSellOrderPerTrade == \A t \in TradeIds : Cardinality(SellOrdersOf(t)) <= 1

\* C4: as error-free cycles keep running, every stored buy order that is
\* FILLED eventually has a trade that refers to it
C4_FilledBuyGetsTrade ==
  \A i \in OrderIds :
    [](orders[i].Type = "BUY" /\ orders[i].Status = "FILLED"
         => <>(\E t \in TradeIds : trades[t].BuyOrderID = i))

\* C5: as error-free cycles keep running, a stored order that the exchange
\* has FILLED eventually has the stored status FILLED
C5_LocalStatusConverges ==
  \A i \in OrderIds :
    [](orders[i].Type # "NONE" /\ exch[i].Status = "FILLED"
         => <>(orders[i].Status = "FILLED"))

\* C6: as error-free cycles keep running, an OPEN trade whose attached sell
\* order the exchange has FILLED eventually is SOLD
C6_FilledSellClosesTrade ==
  \A t \in TradeIds :
    [](/\ trades[t].Status = "OPEN"
        /\ trades[t].SellOrderID # 0
        /\ exch[trades[t].SellOrderID].Status = "FILLED"
        => <>(trades[t].Status = "SOLD"))

\* C7: once IsInitialBuyingComplete is true it stays true, in the memory of
\* the running process and in the stored row
C7_CompleteFlagPermanent ==
  [][/\ db.IsInitialBuyingComplete => db'.IsInitialBuyingComplete
     /\ (pc \notin {"boot", "exited"} /\ botState.IsInitialBuyingComplete)
          => botState'.IsInitialBuyingComplete]_vars

\* C8: InitialBuyOrdersPlacedCount of the running process never decreases
\* from one state to the next, within a cycle or from one cycle to the next
C8_CountNeverDecreases ==
  [][pc \notin {"boot", "exited"}
       => botState'.InitialBuyOrdersPlacedCount >= botState.InitialBuyOrdersPlacedCount]_vars

\* C9: a cycle that is in flight when the shutdown signal arrives ends only
\* by completing its last step, the successful save of BotState
C9_InFlightCycleCompletes ==
  [][(sigInFlight /\ pc \in CyclePcs /\ pc' \notin CyclePcs)
       => (pc = "save" /\ pc' = "idle" /\ db' = UpsertRow(botState))]_vars

\* C10: when a placement step has returned and the order it placed on the
\* exchange has no stored row, the step returned an error
C10_UnrecordedPlacementReportsFailure ==
  (pc \in {"sell", "sweep", "save"} /\ stepPlaced # 0 /\ orders[stepPlaced].Type = "NONE")
    => stepErr

\* position of a status in the order of the order lifecycle
StatusRank(st) ==
  CASE st = "NEW" -> 1
    [] st = "PARTIALLY_FILLED" -> 2
    [] OTHER -> 3

\* C11: the status of a stored order only moves forward: its rank never goes
\* down, and a stored FILLED is never replaced by another status
C11_StoredStatusMovesForward ==
  [][\A i \in OrderIds :
       orders[i].Type # "NONE"
         => /\ orders'[i].Type # "NONE"
            /\ StatusRank(orders'[i].Status) >= StatusRank(orders[i].Status)
            /\ (orders[i].Status = "FILLED" => orders'[i].Status = "FILLED")]_vars

\* the sweep has rewritten the status of a stored order
C11_Witness == \E i \in OrderIds : orders[i].Status = "PARTIALLY_FILLED"

\* C12: a SOLD trade has a sell order attached, and that stored sell order
\* is FILLED (stored statuses are changed by no step that closes a trade, so
\* it was FILLED in the cycle that closed the trade)
C12_SoldHasFilledSellOrder ==
  \A t \in TradeIds :
    trades[t].Status = "SOLD"
      => /\ trades[t].SellOrderID # 0
         /\ orders[trades[t].SellOrderID].Type = "SELL"
         /\ orders[trades[t].SellOrderID].Status = "FILLED"

\* a trade has been closed
C12_Witness == \E t \in TradeIds : trades[t].Status = "SOLD"

\* C13: a step places a sell order for a trade, or changes the stored trade,
\* only when the stored buy order of the trade is FILLED
C13_SellOnlyAfterFilledBuy ==
  [][\A t \in TradeIds :
       (\/ \E i \in OrderIds : /\ exch[i].Kind = "NONE"
                                /\ exch'[i].Kind = "SELL"
                                /\ exch'[i].Trade = t
        \/ trades'[t] # trades[t])
         => /\ orders[trades[t].BuyOrderID].Type = "BUY"
            /\ orders[trades[t].BuyOrderID].Status = "FILLED"]_vars

\* a sell order has been placed for a trade
C13_Witness == \E t \in TradeIds : SellOrdersOf(t) # {}

C14_CloseIsIdempotent ==
  [][\A t \in TradeIds :
       trades[t].Status = "SOLD"
         => /\ trades'[t].Status = "SOLD"
            /\ trades'[t].ActualSellPrice = trades[t].ActualSellPrice
            /\ trades'[t].ProfitUSDT = trades[t].ProfitUSDT]_vars

\* C15: the sell order reference of a trade is set at most once: attaching
\* to a trade that already has a sell order leaves the reference unchanged
C15_SellOrderSetOnce ==
  [][\A t \in TradeIds :
       trades[t].SellOrderID # 0
         => trades'[t].SellOrderID = trades[t].SellOrderID]_vars

\* C16: when the balance refresh of a cycle fails, the quote balance of
\* BotState keeps the value of the last successful read
C16_FailedRefreshKeepsBalance ==
  [][(/\ pc = "idle"
      /\ pc' = "price"
      /\ botState.ID # 0
      /\ (faults' > faults \/ ctxCancelled))
       => botState'.CurrentUSDTBalance = botState.CurrentUSDTBalance]_vars

\* C17: every cycle ends with BotState persisted: when the process leaves a
\* cycle, the stored row equals the in-memory BotState
C17_CycleEndsPersisted ==
  [][(pc \in CyclePcs /\ pc' \notin CyclePcs) => db' = UpsertRow(botState')]_vars

\* C18: within a cycle BotState is written to the store only by the last
\* step: the write ends the cycle, so it happens at most once and after every
\* order placement and every order or trade write of the cycle
C18_SingleFinalWrite ==
  [][db' # db
       => /\ pc = "save"
          /\ pc' = "idle"
          /\ orders' = orders
          /\ trades' = trades
          /\ exch' = exch]_vars

\* a cycle that placed an order has saved BotState
C18_Witness ==
  /\ pc = "idle"
  /\ db.CurrentUSDTBalance = InitialUSDT - OrderAmount
  /\ db.InitialBuyOrdersPlacedCount > 0
  /\ db.LastInitialBuyOrderPlacedAt = now

\* C19: when the save at the end of a cycle fails the process exits, and an
\* exited process starts no cycle and places no order
C19_FailedSaveTerminates ==
  [][/\ (pc = "save" /\ pc' # "save" /\ (faults' > faults \/ ctxCancelled))
          => pc' = "exited"
     /\ pc = "exited" => (pc' \in {"exited", "boot"} /\ exch' = exch /\ orders' = orders)]_vars

\* the process has exited on a failed save (no signal was sent)
C19_Witness == pc = "exited" /\ ~ctxCancelled /\ faults > 0

\* C21: an accepted initial buy is the only order of its step; it raises the
\* placed count by exactly 1 and lowers the local quote balance by exactly
\* OrderAmount; the row recorded for it carries the price 1% under the current
\* price and the quantity OrderAmount / buyPrice.  From count 0, balance 100
\* and price 100.00 that is one buy at 99.00 for 0.10101, count 1, balance 90
C21_InitialBuyEffect ==
  [][\A id \in OrderIds :
       (exch[id].Kind = "NONE" /\ exch'[id].Kind = "INITIAL")
         => /\ \A j \in OrderIds \ {id} : exch'[j] = exch[j] /\ orders'[j] = orders[j]
            /\ botState'.InitialBuyOrdersPlacedCount =
                 botState.InitialBuyOrdersPlacedCount + 1
            /\ botState'.CurrentUSDTBalance = botState.CurrentUSDTBalance - OrderAmount
            /\ orders'[id].Type # "NONE"
                 => /\ orders'[id].Type = "BUY"
                    /\ orders'[id].Price * 100 = currentPrice * (100 - InitialBuyPercentage)
                    /\ orders'[id].Quantity =
                         (OrderAmount * CentsPerUSDT * QtyScale) \div orders'[id].Price
            /\ (/\ botState.InitialBuyOrdersPlacedCount = 0
                /\ botState.CurrentUSDTBalance = 100
                /\ currentPrice = 10000)
                 => /\ botState'.InitialBuyOrdersPlacedCount = 1
                    /\ botState'.CurrentUSDTBalance = 90
                    /\ orders'[id].Type # "NONE"
                         => orders'[id].Price = 9900 /\ orders'[id].Quantity = 10101]_vars

\* the first initial buy of a run has been placed and recorded: 99.00, 0.10101
C21_Witness ==
  /\ pc = "sell"
  /\ stepPlaced # 0
  /\ exch[stepPlaced].Kind = "INITIAL"
  /\ botState.InitialBuyOrdersPlacedCount = 1
  /\ botState.CurrentUSDTBalance = 90
  /\ orders[stepPlaced].Price = 9900
  /\ orders[stepPlaced].Quantity = 10101

\* C22: the sell order placed for a trade is the only order of its step; the
\* trade was OPEN with a FILLED buy order and no sell order attached; the row
\* recorded for it is a SELL at the buy price plus 2% (100.98 for 99.00) for
\* the full bought quantity; and when no store write of the step fails the
\* trade carries the exchange id of that order afterwards
C22_SellOrderForFilledBuy ==
  [][\A id \in OrderIds :
       (exch[id].Kind = "NONE" /\ exch'[id].Kind = "SELL")
         => LET t == exch'[id].Trade IN
            /\ \A j \in OrderIds \ {id} : exch'[j] = exch[j] /\ orders'[j] = orders[j]
            /\ trades[t].Status = "OPEN"
            /\ trades[t].SellOrderID = 0
            /\ orders[trades[t].BuyOrderID].Status = "FILLED"
            /\ orders'[id].Type # "NONE"
                 => /\ orders'[id].Type = "SELL"
                    /\ orders'[id].Price * 100 =
                         trades[t].BuyPrice * (100 + SellProfitPercentage)
                    /\ trades[t].BuyPrice = 9900 => orders'[id].Price = 10098
                    /\ orders'[id].Quantity = trades[t].BuyQuantity
            /\ faults' = faults
                 => /\ orders'[id].Type = "SELL"
                    /\ trades'[t] = [trades[t] EXCEPT !.SellOrderID = id]]_vars

\* an OPEN trade bought at 99.00 carries its sell order: 100.98, full quantity
C22_Witness ==
  \E t \in TradeIds :
    /\ trades[t].Status = "OPEN"
    /\ trades[t].BuyPrice = 9900
    /\ trades[t].SellOrderID # 0
    /\ exch[trades[t].SellOrderID].Kind = "SELL"
    /\ exch[trades[t].SellOrderID].Trade = t
    /\ orders[trades[t].SellOrderID].Price = 10098
    /\ orders[trades[t].SellOrderID].Quantity = trades[t].BuyQuantity

C24_SingleBotStateRow ==
  /\ [](Cardinality(db) <= 1 /\ \A r \in db : r.ID = 1)
  /\ [][db' # db => db' = {[botState EXCEPT !.ID = 1]}]_vars

\* a state saved over an earlier row has been loaded back
C24_Witness ==
  /\ botState.ID = 1
  /\ botState.InitialBuyOrdersPlacedCount = 2
  /\ db = {botState}

\* C25: the sweep skips an order that is open on the exchange and has no
\* stored row: no order row is created for it, no trade and no BotState is
\* changed by the sweep, and the sweep goes on: when no call of the sweep
\* fails every listed order that has a row ends with the listed status
C25_UnrecordedOpenOrderSkipped ==
  [][(pc = "sweep" /\ pc' = "additional")
       => /\ \A i \in OrderIds : orders[i].Type = "NONE" => orders'[i] = orders[i]
          /\ trades' = trades
          /\ botState' = botState
          /\ db' = db
          /\ (faults' = faults /\ ~ctxCancelled)
               => \A j \in OrderIds :
                    (exch[j].Status \in OpenStatuses /\ orders[j].Type # "NONE")
                      => orders'[j].Status = exch[j].Status]_vars

\* a sweep has run over an open order without a row and an open order with one
C25_Witness ==
  /\ pc = "additional"
  /\ \E i \in OrderIds : exch[i].Status \in OpenStatuses /\ orders[i].Type = "NONE"
  /\ \E j \in OrderIds : /\ exch[j].Status = "PARTIALLY_FILLED"
                         /\ orders[j].Status = "PARTIALLY_FILLED"

\* C26: the first-run initialisation leaves its mark on at most one cycle of
\* a process run: the start of a cycle never changes the placed count, the
\* time of the last initial buy, the cumulative profit or the completion flag
\* (the initialisation of a fresh state finds them at their zero values)
C26_ResetAtMostOncePerRun ==
  [][(pc = "idle" /\ pc' = "price")
       => /\ botState'.InitialBuyOrdersPlacedCount = botState.InitialBuyOrdersPlacedCount
          /\ botState'.LastInitialBuyOrderPlacedAt = botState.LastInitialBuyOrderPlacedAt
          /\ botState'.TotalUSDTProfit = botState.TotalUSDTProfit
          /\ botState'.IsInitialBuyingComplete = botState.IsInitialBuyingComplete]_vars

\* C27: once a bot_states row is stored, no later save lowers its placed
\* count or its cumulative profit or clears its completion flag, whatever
\* happened to the read of the row at start-up
C27_PersistedProgressKept ==
  [][db.ID = 1
       => /\ db'.InitialBuyOrdersPlacedCount >= db.InitialBuyOrdersPlacedCount
          /\ db'.TotalUSDTProfit >= db.TotalUSDTProfit
          /\ db.IsInitialBuyingComplete => db'.IsInitialBuyingComplete]_vars

C29_InitialBuysPaced ==
  [][(/\ initialBuysSent' = initialBuysSent + 1
      /\ db \notin DbRows
      /\ db.LastInitialBuyOrderPlacedAt # NoValue)
       => now >= db.LastInitialBuyOrderPlacedAt + OrderIntervalMinutes]_vars

\* C30: when the initial step was due to place a buy and ends with no order
\* on the exchange, it returns an error and leaves the placed count, the time
\* of the last initial buy, the local balance and the order rows as they
\* were, so the buy is due again in a later cycle
C30_FailedInitialBuyChangesNothing ==
  [][(pc = "initial" /\ InitialBuyDue /\ pc' = "sell" /\ exch' = exch)
       => /\ botState' = botState
          /\ orders' = orders
          /\ initialBuysSent' = initialBuysSent
          /\ stepErr']_vars

\* the initial step has returned an error and the buy is still due
C30_Witness ==
  /\ pc = "sell"
  /\ stepErr
  /\ stepPlaced = 0
  /\ ~ctxCancelled
  /\ InitialBuyDue
  /\ \A i \in OrderIds : exch[i].Kind # "INITIAL"

\* C31: with the local quote balance below OrderAmount the initial step
\* places no order, returns no error and leaves BotState (count, time of the
\* last initial buy, completion flag, balance) and the order rows unchanged
C31_LowBalanceSkipsInitialBuy ==
  [][(pc = "initial" /\ botState.CurrentUSDTBalance < OrderAmount)
       => /\ exch' = exch
          /\ orders' = orders
          /\ botState' = botState
          /\ initialBuysSent' = initialBuysSent
          /\ pc' = "sell" => ~stepErr']_vars

\* the initial step is over: a buy was due but for the balance of 5
C31_Witness ==
  /\ pc = "sell"
  /\ ~stepErr
  /\ stepPlaced = 0
  /\ ~ctxCancelled
  /\ botState.CurrentUSDTBalance = 5
  /\ ~botState.IsInitialBuyingComplete
  /\ botState.InitialBuyOrdersPlacedCount < InitialBuyTarget
  /\ botState.LastInitialBuyOrderPlacedAt = NoValue

\* C32: the steps of a cycle run in the order initial buys, sell-side
\* reconciliation, sweep, additional buys, save; each kind of order is placed
\* in its own step; a trade row changes only in the sell-side step, only for
\* the trade at the loop index, which the loop then leaves for good, and the
\* change is one transition: a sell order attached to an OPEN trade, or an
\* OPEN trade with a sell order marked SOLD, never both
C32_FixedStepOrder ==
  [][/\ (pc \in CyclePcs /\ pc' # pc)
          => <<pc, pc'>> \in {<<"price", "initial">>, <<"price", "idle">>,
                              <<"initial", "sell">>, <<"sell", "sellLoop">>,
                              <<"sell", "sweep">>, <<"sellLoop", "sweep">>,
                              <<"sweep", "additional">>, <<"additional", "save">>,
                              <<"save", "idle">>, <<"save", "exited">>}
     /\ (pc = "sellLoop" /\ pc' = "sellLoop" /\ ti' # ti) => ti' = ti + 1
     /\ \A i \in OrderIds :
          (exch[i].Kind = "NONE" /\ exch'[i].Kind # "NONE")
            => \/ pc = "initial" /\ exch'[i].Kind = "INITIAL"
               \/ pc = "sellLoop" /\ exch'[i].Kind = "SELL"
               \/ pc = "additional" /\ exch'[i].Kind = "ADDITIONAL"
     /\ db' # db => pc = "save"
     /\ \A t \in TradeIds :
          trades'[t] # trades[t]
            => /\ pc = "sellLoop"
               /\ t = ti
               /\ pc' = "sweep" \/ ti' = ti + 1
               /\ trades[t].Status = "OPEN"
               /\ \/ /\ trades[t].SellOrderID = 0
                     /\ trades'[t].SellOrderID # 0
                     /\ trades'[t].Status = "OPEN"
                  \/ /\ trades[t].SellOrderID # 0
                     /\ trades'[t].SellOrderID = trades[t].SellOrderID
                     /\ trades'[t].Status = "SOLD"]_vars

\* the sell order placed in this cycle was answered FILLED and is recorded,
\* and the sell-side step is over with the trade still OPEN
C32_Witness ==
  /\ pc = "sweep"
  /\ stepPlaced # 0
  /\ exch[stepPlaced].Kind = "SELL"
  /\ orders[stepPlaced].Status = "FILLED"
  /\ trades[exch[stepPlaced].Trade].SellOrderID = stepPlaced
  /\ trades[exch[stepPlaced].Trade].Status = "OPEN"

\* C33: when a cycle has completed, every trade that carries a sell order id
\* refers to an order row the store holds
C33_SellOrderRowExists ==
  [][(pc = "save" /\ pc' = "idle")
       => \A t \in TradeIds :
            trades'[t].SellOrderID # 0 => orders'[trades'[t].SellOrderID].Type # "NONE"]_vars

\* the sum of the recorded profit of the trades 1..n stored as SOLD
RECURSIVE SoldProfitUpTo(_)
SoldProfitUpTo(n) ==
  IF n = 0 THEN 0
  ELSE SoldProfitUpTo(n - 1)
         + (IF trades[n].Status = "SOLD" THEN trades[n].ProfitUSDT ELSE 0)

\* C34: when a cycle has completed, the cumulative profit of BotState, in
\* memory and as saved, is the sum of the recorded profit of the trades
\* stored as SOLD
C34_ProfitMatchesSoldTrades ==
  [][(pc = "save" /\ pc' = "idle")
       => /\ botState'.TotalUSDTProfit = SoldProfitUpTo(MaxTrades)'
          /\ db'.TotalUSDTProfit = SoldProfitUpTo(MaxTrades)']_vars

\* C35: a cycle places at most one buy order: when an additional buy is
\* placed, no initial buy has been placed earlier in the same cycle, that is,
\* the local balance is still the one read at the start of the cycle (an
\* initial buy is the only thing that changes it before the additional step)
C35_OneBuyPerCycle ==
  [][(\E i \in OrderIds : exch[i].Kind = "NONE" /\ exch'[i].Kind = "ADDITIONAL")
       => botState.CurrentUSDTBalance \in UsdtSet]_vars

\* C36: a cycle whose price call fails ends there: from its start to its
\* return no order is placed on the exchange and no order row, trade row or
\* bot_states row is created or changed
C36_PriceFailureEndsCycle ==
  [][/\ (pc = "price" /\ pc' # pc /\ (faults' > faults \/ ctxCancelled))
          => /\ pc' = "idle"
             /\ exch' = exch
             /\ orders' = orders
             /\ trades' = trades
             /\ db' = db
     /\ (pc = "idle" /\ pc' = "price")
          => /\ exch' = exch
             /\ orders' = orders
             /\ trades' = trades
             /\ db' = db]_vars

\* a cycle has returned on a failed price call: the balance it read is in
\* memory and was not saved
C36_Witness ==
  /\ pc = "idle"
  /\ ~ctxCancelled
  /\ faults > 0
  /\ botState.CurrentUSDTBalance = 100
  /\ db.CurrentUSDTBalance # 100

\* C37: applying a status to an Order gives the order that status; an order
\* whose status did not change did not change at all; an order whose status
\* changed has its execution time set to the time of the update when the new
\* status is FILLED or PARTIALLY_FILLED, cleared when it is CANCELED,
\* REJECTED or EXPIRED and kept otherwise; type, price and quantity stay
C37_StatusUpdateEffect ==
  [][\A i \in OrderIds :
       /\ \A st \in OrderStatuses : ApplyStatusUpdate(orders[i], st, now).Status = st
       /\ orders'[i].Status = orders[i].Status => orders'[i] = orders[i]
       /\ orders'[i].Status # orders[i].Status
            => /\ orders'[i].Status \in {"FILLED", "PARTIALLY_FILLED"}
                    => orders'[i].ExecutedAt = now
               /\ orders'[i].Status \in {"CANCELED", "REJECTED", "EXPIRED"}
                    => orders'[i].ExecutedAt = NoValue
               /\ orders'[i].Status \in {"NEW", "PENDING_CANCEL"}
                    => orders'[i].ExecutedAt = orders[i].ExecutedAt
               /\ orders'[i].Type = orders[i].Type
               /\ orders'[i].Price = orders[i].Price
               /\ orders'[i].Quantity = orders[i].Quantity]_vars

\* one order was filled at minute 1 and keeps that time at minute 2; another
\* was cancelled at minute 2 after an execution and has no execution time
C37_Witness ==
  /\ now = 2
  /\ orders[1].Status = "FILLED"
  /\ orders[1].ExecutedAt = 1
  /\ orders[2].Status = "CANCELED"
  /\ orders[2].ExecutedAt = NoValue
  /\ orders[2].LastUpdatedAt = 2

\* C38: at most one cycle is executing at any time, and a cycle starts only
\* when none is running, however many ticks pass while a cycle runs
C38_CyclesNeverOverlap ==
  /\ [](pc.running <= 1)
  /\ [][pc'.running > pc.running => pc.running = 0]_vars

\* a cycle is running for two ticker periods or more: one tick is buffered,
\* the other was dropped
C38_Witness ==
  /\ pc.running = 1
  /\ pc.main \in CyclePcs
  /\ pc.tickerC = 1
  /\ now >= pc.startedAt + 2 * OrderIntervalMinutes

====
